---- MODULE Spec2Model ----
(***************************************************************************)
(* A model of the action handlers of src/src/actions/index.ts over the     *)
(* three tables of src/db/tables.ts.                                       *)
(*                                                                         *)
(* Every handler is an async function: it runs synchronously up to each    *)
(* `await db...`, the statement it awaits executes atomically at the       *)
(* store, and other requests may run in between.  A request occupies a     *)
(* slot of `procs`; one action of the model is one such atomic piece.      *)
(* A request's arrival (input validation, requireUser), its first select   *)
(* and the synchronous code after that select (the access check, new       *)
(* Date(), building the row) form the first piece: the row a handler holds *)
(* is the row as of its clock reading.  Every later awaited statement is a *)
(* piece of its own, so other requests run between a handler's check and   *)
(* its writes, and between its writes.  A finished request shows its       *)
(* response in its slot until Return frees the slot, which happens before  *)
(* anything else does.                                                     *)
(*                                                                         *)
(* Of the text columns of AiCharacters the model keeps `name`; the         *)
(* optional ones (slug ... avatarUrl) are copied by the handlers the way   *)
(* `title` of CharacterChatSessions is and take part in no decision.       *)
(***************************************************************************)
EXTENDS Integers, FiniteSets, Sequences, TLC

VARIABLES
    characters,  \* AiCharacters: id -> row
    sessions,    \* CharacterChatSessions: id -> row
    messages,    \* CharacterChatMessages: id -> row
    clock,       \* what new Date() returns
    procs,       \* the requests in flight, one per slot
    createdBy    \* history: the caller whose request inserted each character and session

vars == <<characters, sessions, messages, clock, procs, createdBy>>

----------------------------------------------------------------------------
(* Bounds of the model. *)
MaxCharacters == 1
MaxSessions == 1
MaxMessages == 2
MaxClock == 2
MaxProcs == 2

(* Values. *)
Users == {"A", "B"}
Null == "null"
NullTime == 0
SystemCharacterId == 0

Callers == Users \cup {Null}
Procs == 1..MaxProcs
CharacterIds == 0..(MaxCharacters + 1)
SessionIds == 1..(MaxSessions + 1)
Names == {"", "n1", "n2"}
Titles == {"t1"}
Summaries == {"c1"}
Metadata == {[k |-> "v"]}
Contents == {"", "hi"}
SenderRoles == {"user", "character", "system"}
RoleInputs == SenderRoles \cup {"admin"}

(* The objects with the optional properties F names, each absent or holding *)
(* one of the values F allows for it.                                       *)
RECURSIVE OptionalFields(_)
OptionalFields(F) ==
    IF DOMAIN F = {} THEN {F}
    ELSE LET k == CHOOSE x \in DOMAIN F : TRUE
             rest == OptionalFields([j \in DOMAIN F \ {k} |-> F[j]])
         IN  rest \cup {(k :> v) @@ r : v \in F[k], r \in rest}

Has(obj, k) == k \in DOMAIN obj

(* obj.k ?? d *)
Coalesce(obj, k, d) == IF Has(obj, k) THEN obj[k] ELSE d

(* A column given `undefined` on insert is stored as NULL. *)
Column(obj, k) == Coalesce(obj, k, Null)

(* db.update(...).set(updateData): the row with the given columns replaced *)
SetColumns(row, updateData) ==
    [k \in DOMAIN row |-> IF Has(updateData, k) THEN updateData[k] ELSE row[k]]

(* db.select().from(T).where(eq(T.id, id)) *)
SelectById(table, id) == {table[i] : i \in {j \in DOMAIN table : j = id}}

(* const [row] = rows / rows[0] *)
First(rows) == CHOOSE r \in rows : TRUE

(* db.insert(T).values(row) *)
Insert(table, row) == (row.id :> row) @@ table

(* db.update(T).set(updateData).where(and(eq(T.id, id), eq(T.userId, userId))) *)
UpdateOwned(table, id, userId, updateData) ==
    [i \in DOMAIN table |->
        IF table[i].id = id /\ table[i].userId = userId
        THEN SetColumns(table[i], updateData)
        ELSE table[i]]

----------------------------------------------------------------------------
(* Responses. *)
Ok(data) == [code |-> "OK", data |-> data]
ActionError(code, message) == [code |-> code, message |-> message]
Unauthorized == ActionError("UNAUTHORIZED", "You must be signed in to perform this action.")
InputError == ActionError("BAD_REQUEST", "Failed to validate")
NoResponse == [code |-> "NONE"]

Idle == [pc |-> "idle", op |-> "none", caller |-> Null, input |-> [x \in {} |-> 0],
         rec |-> {}, resp |-> NoResponse]

Request(op, caller, input) ==
    [pc |-> "idle", op |-> op, caller |-> caller, input |-> input,
     rec |-> {}, resp |-> NoResponse]

Pending(req, pc, rec) == [req EXCEPT !.pc = pc, !.rec = {rec}]

Done(req, resp) == [req EXCEPT !.pc = "done", !.rec = {}, !.resp = resp]

(* No response is waiting to be returned. *)
Quiet == \A p \in Procs : procs[p].pc # "done"

(* A request takes the first idle slot. *)
Free(p) ==
    /\ Quiet
    /\ procs[p].pc = "idle"
    /\ \A q \in Procs : q < p => procs[q].pc # "idle"

At(p, op, pc) == Quiet /\ procs[p].op = op /\ procs[p].pc = pc

(* requireUser *)
RequireUser(caller) == caller # Null

InFlight(op) == {p \in Procs : procs[p].op = op /\ procs[p].pc \notin {"idle", "done"}}

(* crypto.randomUUID(): an id no row and no request in flight holds *)
RandomUUID(table, op) ==
    LET used == DOMAIN table \cup {0}
                  \cup UNION {{r.id : r \in procs[p].rec} : p \in InFlight(op)}
    IN  1 + (CHOOSE m \in used : \A u \in used : u <= m)

(* The model stops accepting creations that would exceed a table's bound. *)
Room(table, op, max) == Cardinality(DOMAIN table \ {0}) + Cardinality(InFlight(op)) < max

Pick(obj, keys) == [k \in (DOMAIN obj) \cap keys |-> obj[k]]

Rows(table) == {table[i] : i \in DOMAIN table}

(* new Date(): the clock never runs backwards *)
Tick ==
    /\ Quiet
    /\ clock < MaxClock
    /\ clock' = clock + 1
    /\ UNCHANGED <<characters, sessions, messages, procs, createdBy>>

(* The response leaves the server. *)
Return(p) ==
    /\ procs[p].pc = "done"
    /\ procs' = [procs EXCEPT ![p] = Idle]
    /\ UNCHANGED <<characters, sessions, messages, clock, createdBy>>

----------------------------------------------------------------------------
(* createCharacter *)
CreateCharacterInputs ==
    {[name |-> n] @@ o : n \in Names,
                         o \in OptionalFields([isPublic |-> BOOLEAN, isSystem |-> {TRUE}])}

(* z.object({...}): keys the schema does not name are dropped *)
CharacterSchema(input) == Pick(input, {"id", "name", "isPublic"})

ValidCharacterFields(input) == Has(input, "name") => input.name # ""

(* Mutant of NewCharacter: isSystem copied from the input's flag. *)
NewCharacterSystemFromPublic(id, user, input, now) ==
    [id |-> id, userId |-> user, name |-> input.name,
     isPublic |-> Coalesce(input, "isPublic", FALSE),
     isSystem |-> Coalesce(input, "isPublic", FALSE),
     createdAt |-> now, updatedAt |-> now]

NewCharacter(id, user, input, now) ==
    [id |-> id, userId |-> user, name |-> input.name,
     isPublic |-> Coalesce(input, "isPublic", FALSE), isSystem |-> FALSE,
     createdAt |-> now, updatedAt |-> now]

CreateCharacterStart(p, inputs) ==
    /\ Free(p)
    /\ Room(characters, "createCharacter", MaxCharacters)
    /\ \E caller \in Callers, input \in inputs :
         LET req == Request("createCharacter", caller, CharacterSchema(input)) IN
         procs' = [procs EXCEPT ![p] =
            IF ~ValidCharacterFields(input) THEN Done(req, InputError)
            ELSE IF ~RequireUser(caller) THEN Done(req, Unauthorized)
            ELSE Pending(req, "insert",
                         NewCharacter(RandomUUID(characters, "createCharacter"),
                                      caller, req.input, clock))]
    /\ UNCHANGED <<characters, sessions, messages, clock, createdBy>>

CreateCharacterInsert(p) ==
    /\ At(p, "createCharacter", "insert")
    /\ LET character == First(procs[p].rec) IN
         /\ characters' = Insert(characters, character)
         /\ createdBy' = [createdBy EXCEPT !.characters = (character.id :> procs[p].caller) @@ @]
         /\ procs' = [procs EXCEPT ![p] = Done(@, Ok([character |-> character]))]
    /\ UNCHANGED <<sessions, messages, clock>>

----------------------------------------------------------------------------
(* updateCharacter *)
UpdateCharacterInputs ==
    {[id |-> i] @@ o : i \in CharacterIds,
                       o \in OptionalFields([name |-> Names, isPublic |-> BOOLEAN,
                                             isSystem |-> {TRUE}])}

CharacterForbidden == ActionError("FORBIDDEN", "Character not found or you do not have access.")

(* Mutants of OwnsRow: the owner is not compared; a row without an owner *)
(* is taken to be anyone's.                                              *)
OwnsRowAnyUser(rows, user) == rows # {}

OwnsRowOrUnowned(rows, user) ==
    rows # {} /\ (First(rows).userId = user \/ First(rows).userId = Null)

(* !row || row.userId !== user.id, negated *)
OwnsRow(rows, user) == rows # {} /\ First(rows).userId = user

CharacterUpdateData(input, now) ==
    [updatedAt |-> now] @@ Pick(input, {"name", "isPublic"})

UpdateCharacterStart(p, inputs) ==
    /\ Free(p)
    /\ \E caller \in Callers, input \in inputs :
         LET req == Request("updateCharacter", caller, CharacterSchema(input)) IN
         procs' = [procs EXCEPT ![p] =
            IF ~ValidCharacterFields(input) THEN Done(req, InputError)
            ELSE IF ~RequireUser(caller) THEN Done(req, Unauthorized)
            ELSE IF ~OwnsRow(SelectById(characters, input.id), caller)
            THEN Done(req, CharacterForbidden)
            ELSE Pending(req, "update", CharacterUpdateData(req.input, clock))]
    /\ UNCHANGED <<characters, sessions, messages, clock, createdBy>>

(* Mutant of UpdateCharacterCommit: a character turned private archives the *)
(* sessions other users hold on it.                                         *)
UpdateCharacterCommitRevoking(p) ==
    /\ At(p, "updateCharacter", "update")
    /\ characters' = UpdateOwned(characters, procs[p].input.id, procs[p].caller,
                                 First(procs[p].rec))
    /\ sessions' = [i \in DOMAIN sessions |->
                      IF /\ sessions[i].characterId = procs[p].input.id
                         /\ sessions[i].userId # procs[p].caller
                         /\ Has(First(procs[p].rec), "isPublic")
                         /\ ~First(procs[p].rec).isPublic
                      THEN [sessions[i] EXCEPT !.isArchived = TRUE]
                      ELSE sessions[i]]
    /\ procs' = [procs EXCEPT ![p] = Done(@, Ok([id |-> procs[p].input.id]))]
    /\ UNCHANGED <<messages, clock, createdBy>>

UpdateCharacterCommit(p) ==
    /\ At(p, "updateCharacter", "update")
    /\ characters' = UpdateOwned(characters, procs[p].input.id, procs[p].caller,
                                 First(procs[p].rec))
    /\ procs' = [procs EXCEPT ![p] = Done(@, Ok([id |-> procs[p].input.id]))]
    /\ UNCHANGED <<sessions, messages, clock, createdBy>>

----------------------------------------------------------------------------
(* listCharacters *)
ListCharactersInputs == OptionalFields([includePrivate |-> BOOLEAN])

(* Mutant of BaseVisibility: system characters are not listed for being system. *)
BaseVisibilityPublicOnly(c) == c.isPublic

BaseVisibility(c) == c.isPublic \/ c.isSystem

CharacterWhere(input, userId, c) ==
    IF Coalesce(input, "includePrivate", FALSE) /\ userId # Null
    THEN BaseVisibility(c) \/ c.userId = userId
    ELSE BaseVisibility(c)

ListCharacters(p, inputs) ==
    /\ Free(p)
    /\ \E caller \in Callers, input \in inputs :
         LET req == Request("listCharacters", caller, input)
             items == {c \in Rows(characters) : CharacterWhere(input, caller, c)}
         IN  procs' = [procs EXCEPT ![p] =
                Done(req, Ok([items |-> items, total |-> Cardinality(items)]))]
    /\ UNCHANGED <<characters, sessions, messages, clock, createdBy>>

----------------------------------------------------------------------------
(* createChatSession *)
CreateChatSessionInputs ==
    {[characterId |-> i] @@ o : i \in CharacterIds, o \in OptionalFields([title |-> Titles])}

CharacterNotFound == ActionError("NOT_FOUND", "Character not found.")
CharacterNoAccess == ActionError("FORBIDDEN", "You do not have access to this character.")

(* Mutant of MayChatWith: the isSystem test is left out. *)
MayChatWithNoSystem(character, user) == character.isPublic \/ character.userId = user

(* !character.isPublic && !character.isSystem && character.userId !== user.id, negated *)
MayChatWith(character, user) ==
    character.isPublic \/ character.isSystem \/ character.userId = user

NewSession(id, user, input, now) ==
    [id |-> id, characterId |-> input.characterId, userId |-> user,
     title |-> Column(input, "title"), contextSummary |-> Null,
     isPinned |-> FALSE, isArchived |-> FALSE,
     createdAt |-> now, updatedAt |-> now, lastMessageAt |-> NullTime]

CreateChatSessionStart(p, inputs) ==
    /\ Free(p)
    /\ Room(sessions, "createChatSession", MaxSessions)
    /\ \E caller \in Callers, input \in inputs :
         LET req == Request("createChatSession", caller, input)
             rows == SelectById(characters, input.characterId)
         IN  procs' = [procs EXCEPT ![p] =
                IF ~RequireUser(caller) THEN Done(req, Unauthorized)
                ELSE IF rows = {} THEN Done(req, CharacterNotFound)
                ELSE IF ~MayChatWith(First(rows), caller) THEN Done(req, CharacterNoAccess)
                ELSE Pending(req, "insert",
                             NewSession(RandomUUID(sessions, "createChatSession"),
                                        caller, input, clock))]
    /\ UNCHANGED <<characters, sessions, messages, clock, createdBy>>

CreateChatSessionInsert(p) ==
    /\ At(p, "createChatSession", "insert")
    /\ LET session == First(procs[p].rec) IN
         /\ sessions' = Insert(sessions, session)
         /\ createdBy' = [createdBy EXCEPT !.sessions = (session.id :> procs[p].caller) @@ @]
         /\ procs' = [procs EXCEPT ![p] = Done(@, Ok([session |-> session]))]
    /\ UNCHANGED <<characters, messages, clock>>

----------------------------------------------------------------------------
(* updateChatSession *)
UpdateChatSessionInputs ==
    {[id |-> i] @@ o : i \in SessionIds,
                       o \in OptionalFields([title |-> Titles, contextSummary |-> Summaries,
                                             isPinned |-> BOOLEAN, isArchived |-> BOOLEAN])}

SessionForbidden == ActionError("FORBIDDEN", "Session not found or you do not have access.")

SessionUpdateData(input, now) ==
    [updatedAt |-> now] @@ Pick(input, {"title", "contextSummary", "isPinned", "isArchived"})

UpdateChatSessionStart(p, inputs) ==
    /\ Free(p)
    /\ \E caller \in Callers, input \in inputs :
         LET req == Request("updateChatSession", caller, input) IN
         procs' = [procs EXCEPT ![p] =
            IF ~RequireUser(caller) THEN Done(req, Unauthorized)
            ELSE IF ~OwnsRow(SelectById(sessions, input.id), caller)
            THEN Done(req, SessionForbidden)
            ELSE Pending(req, "update", SessionUpdateData(input, clock))]
    /\ UNCHANGED <<characters, sessions, messages, clock, createdBy>>

UpdateChatSessionCommit(p) ==
    /\ At(p, "updateChatSession", "update")
    /\ sessions' = UpdateOwned(sessions, procs[p].input.id, procs[p].caller,
                               First(procs[p].rec))
    /\ procs' = [procs EXCEPT ![p] = Done(@, Ok([id |-> procs[p].input.id]))]
    /\ UNCHANGED <<characters, messages, clock, createdBy>>

----------------------------------------------------------------------------
(* listMyChatSessions *)
ListMyChatSessionsInputs == OptionalFields([includeArchived |-> BOOLEAN])

SessionWhere(input, userId, s) ==
    IF ~Coalesce(input, "includeArchived", FALSE)
    THEN s.userId = userId /\ s.isArchived = FALSE
    ELSE s.userId = userId

ListMyChatSessions(p, inputs) ==
    /\ Free(p)
    /\ \E caller \in Callers, input \in inputs :
         LET req == Request("listMyChatSessions", caller, input)
             items == {s \in Rows(sessions) : SessionWhere(input, caller, s)}
         IN  procs' = [procs EXCEPT ![p] =
                IF ~RequireUser(caller) THEN Done(req, Unauthorized)
                ELSE Done(req, Ok([items |-> items, total |-> Cardinality(items)]))]
    /\ UNCHANGED <<characters, sessions, messages, clock, createdBy>>

----------------------------------------------------------------------------
(* createChatMessage *)
CreateChatMessageInputs ==
    {[sessionId |-> i, senderRole |-> r, content |-> c] @@ o :
        i \in SessionIds, r \in RoleInputs, c \in Contents,
        o \in OptionalFields([metadata |-> Metadata])}

ValidMessage(input) == input.senderRole \in SenderRoles /\ input.content # ""

(* JSON.stringify *)
JsonStringify(m) ==
    IF DOMAIN m = {} THEN "{}" ELSE "{\"k\":\"v\"}"

(* Mutant of NewMessage: the caller is stored whatever the role. *)
NewMessageCallerAlways(id, user, input, now) ==
    [id |-> id, sessionId |-> input.sessionId, userId |-> user,
     senderRole |-> input.senderRole, content |-> input.content,
     metadataJson |-> IF Has(input, "metadata") THEN JsonStringify(input.metadata) ELSE Null,
     createdAt |-> now]

NewMessage(id, user, input, now) ==
    [id |-> id, sessionId |-> input.sessionId,
     userId |-> IF input.senderRole = "user" THEN user ELSE Null,
     senderRole |-> input.senderRole, content |-> input.content,
     metadataJson |-> IF Has(input, "metadata") THEN JsonStringify(input.metadata) ELSE Null,
     createdAt |-> now]

CreateChatMessageStart(p, inputs) ==
    /\ Free(p)
    /\ Room(messages, "createChatMessage", MaxMessages)
    /\ \E caller \in Callers, input \in inputs :
         LET req == Request("createChatMessage", caller, input) IN
         procs' = [procs EXCEPT ![p] =
            IF ~ValidMessage(input) THEN Done(req, InputError)
            ELSE IF ~RequireUser(caller) THEN Done(req, Unauthorized)
            ELSE IF ~OwnsRow(SelectById(sessions, input.sessionId), caller)
            THEN Done(req, SessionForbidden)
            ELSE Pending(req, "insert",
                         NewMessage(RandomUUID(messages, "createChatMessage"),
                                    caller, input, clock))]
    /\ UNCHANGED <<characters, sessions, messages, clock, createdBy>>

CreateChatMessageInsert(p) ==
    /\ At(p, "createChatMessage", "insert")
    /\ messages' = Insert(messages, First(procs[p].rec))
    /\ procs' = [procs EXCEPT ![p].pc = "update"]
    /\ UNCHANGED <<characters, sessions, clock, createdBy>>

RecencyUpdateData(now) == [updatedAt |-> now, lastMessageAt |-> now]

CreateChatMessageUpdate(p) ==
    /\ At(p, "createChatMessage", "update")
    /\ LET message == First(procs[p].rec) IN
         /\ sessions' = UpdateOwned(sessions, procs[p].input.sessionId, procs[p].caller,
                                    RecencyUpdateData(message.createdAt))
         /\ procs' = [procs EXCEPT ![p] = Done(@, Ok([message |-> message]))]
    /\ UNCHANGED <<characters, messages, clock, createdBy>>

----------------------------------------------------------------------------
(* listChatMessages *)
ListChatMessagesInputs == {[sessionId |-> i] : i \in SessionIds}

ListChatMessagesStart(p, inputs) ==
    /\ Free(p)
    /\ \E caller \in Callers, input \in inputs :
         LET req == Request("listChatMessages", caller, input) IN
         procs' = [procs EXCEPT ![p] =
            IF ~RequireUser(caller) THEN Done(req, Unauthorized)
            ELSE IF ~OwnsRow(SelectById(sessions, input.sessionId), caller)
            THEN Done(req, SessionForbidden)
            ELSE [req EXCEPT !.pc = "select"]]
    /\ UNCHANGED <<characters, sessions, messages, clock, createdBy>>

ListChatMessagesSelect(p) ==
    /\ At(p, "listChatMessages", "select")
    /\ LET items == {m \in Rows(messages) : m.sessionId = procs[p].input.sessionId} IN
         procs' = [procs EXCEPT ![p] =
            Done(@, Ok([items |-> items, total |-> Cardinality(items)]))]
    /\ UNCHANGED <<characters, sessions, messages, clock, createdBy>>

----------------------------------------------------------------------------
(* The store as deployed: the seeded system character and nothing else. *)
SystemCharacter(pub) ==
    [id |-> SystemCharacterId, userId |-> Null, name |-> "n1", isPublic |-> pub,
     isSystem |-> TRUE, createdAt |-> 1, updatedAt |-> 1]

Init ==
    /\ characters \in {(SystemCharacterId :> SystemCharacter(pub)) : pub \in BOOLEAN}
    /\ sessions = [i \in {} |-> 0]
    /\ messages = [i \in {} |-> 0]
    /\ clock = 1
    /\ procs = [p \in Procs |-> Idle]
    /\ createdBy = [characters |-> [i \in {} |-> 0], sessions |-> [i \in {} |-> 0]]

(* Every handler with every input of the model. *)
Next ==
    \/ Tick
    \/ \E p \in Procs :
         \/ Return(p)
         \/ CreateCharacterStart(p, CreateCharacterInputs)
         \/ CreateCharacterInsert(p)
         \/ UpdateCharacterStart(p, UpdateCharacterInputs)
         \/ UpdateCharacterCommit(p)
         \/ ListCharacters(p, ListCharactersInputs)
         \/ CreateChatSessionStart(p, CreateChatSessionInputs)
         \/ CreateChatSessionInsert(p)
         \/ UpdateChatSessionStart(p, UpdateChatSessionInputs)
         \/ UpdateChatSessionCommit(p)
         \/ ListMyChatSessions(p, ListMyChatSessionsInputs)
         \/ CreateChatMessageStart(p, CreateChatMessageInputs)
         \/ CreateChatMessageInsert(p)
         \/ CreateChatMessageUpdate(p)
         \/ ListChatMessagesStart(p, ListChatMessagesInputs)
         \/ ListChatMessagesSelect(p)

Spec == Init /\ [][Next]_vars

(* The character handlers and the handler that reads characters, with *)
(* every input of the model.                                           *)
NextCharacters ==
    \/ Tick
    \/ \E p \in Procs :
         \/ Return(p)
         \/ CreateCharacterStart(p, CreateCharacterInputs)
         \/ CreateCharacterInsert(p)
         \/ UpdateCharacterStart(p, UpdateCharacterInputs)
         \/ UpdateCharacterCommit(p)
         \/ ListCharacters(p, ListCharactersInputs)
         \/ CreateChatSessionStart(p, CreateChatSessionInputs)
         \/ CreateChatSessionInsert(p)

SpecCharacters == Init /\ [][NextCharacters]_vars

(* The session and message handlers, and a character whose owner turns   *)
(* its visibility on and off.  No handler reads a timestamp, so the      *)
(* clock stands still here.                                              *)
PublicCharacterInputs == {[name |-> "n1", isPublic |-> TRUE]}
VisibilityInputs == {[id |-> i, isPublic |-> b] : i \in CharacterIds, b \in BOOLEAN}
UntitledSessionInputs == {[characterId |-> i] : i \in CharacterIds}
ArchiveInputs ==
    {[id |-> i] @@ o : i \in SessionIds,
                       o \in OptionalFields([title |-> Titles, isArchived |-> BOOLEAN])}
PlainMessageInputs ==
    {[sessionId |-> i, senderRole |-> r, content |-> c] :
        i \in SessionIds, r \in RoleInputs, c \in Contents}

NextSessions ==
    \E p \in Procs :
         \/ Return(p)
         \/ CreateCharacterStart(p, PublicCharacterInputs)
         \/ CreateCharacterInsert(p)
         \/ UpdateCharacterStart(p, VisibilityInputs)
         \/ UpdateCharacterCommit(p)
         \/ CreateChatSessionStart(p, UntitledSessionInputs)
         \/ CreateChatSessionInsert(p)
         \/ UpdateChatSessionStart(p, ArchiveInputs)
         \/ UpdateChatSessionCommit(p)
         \/ ListMyChatSessions(p, ListMyChatSessionsInputs)
         \/ CreateChatMessageStart(p, PlainMessageInputs)
         \/ CreateChatMessageInsert(p)
         \/ CreateChatMessageUpdate(p)
         \/ ListChatMessagesStart(p, ListChatMessagesInputs)
         \/ ListChatMessagesSelect(p)

SpecSessions == Init /\ [][NextSessions]_vars

(* The handlers that write a session's timestamps, on sessions with the *)
(* system character, while the clock runs.                              *)
SystemSessionInputs == {[characterId |-> SystemCharacterId]}
SummaryInputs ==
    {[id |-> i] @@ o : i \in SessionIds,
                       o \in OptionalFields([contextSummary |-> Summaries,
                                             isPinned |-> {TRUE}])}

NextRecency ==
    \/ Tick
    \/ \E p \in Procs :
         \/ Return(p)
         \/ CreateChatSessionStart(p, SystemSessionInputs)
         \/ CreateChatSessionInsert(p)
         \/ UpdateChatSessionStart(p, SummaryInputs)
         \/ UpdateChatSessionCommit(p)
         \/ CreateChatMessageStart(p, CreateChatMessageInputs)
         \/ CreateChatMessageInsert(p)
         \/ CreateChatMessageUpdate(p)

SpecRecency == Init /\ [][NextRecency]_vars

----------------------------------------------------------------------------
(* What the claims speak of. *)

(* Slot p takes a request for handler op in this step. *)
Started(p, op) == procs[p].pc = "idle" /\ procs'[p].pc # "idle" /\ procs'[p].op = op

(* The request in slot p is answered in this step. *)
Answered(p) == procs[p].pc # "done" /\ procs'[p].pc = "done"

(* The request in slot p has been answered and its response not yet returned. *)
Responded(p, op) == procs[p].pc = "done" /\ procs[p].op = op

SessionOps == {"createChatMessage", "listChatMessages", "updateChatSession"}

SessionIdOf(r) == IF r.op = "updateChatSession" THEN r.input.id ELSE r.input.sessionId

WellFormed(r) ==
    r.op = "createChatMessage" =>
        r.input.senderRole \in {"user", "character", "system"} /\ r.input.content # ""

ForbiddenSessionResponse ==
    [code |-> "FORBIDDEN", message |-> "Session not found or you do not have access."]

ForbiddenCharacterResponse ==
    [code |-> "FORBIDDEN", message |-> "Character not found or you do not have access."]

Max(S) == CHOOSE m \in S : \A x \in S : x <= m

(* Session s is held by a user who could not open it now: its character is *)
(* private, not system, and another user's.                                *)
Grandfathered(s) ==
    /\ s \in DOMAIN sessions
    /\ sessions[s].characterId \in DOMAIN characters
    /\ LET c == characters[sessions[s].characterId] IN
         ~c.isPublic /\ ~c.isSystem /\ c.userId # sessions[s].userId

(* C1: a well-formed createChatMessage, listChatMessages or updateChatSession *)
(* by a signed-in caller who does not own the session is answered at once    *)
(* with FORBIDDEN "Session not found or you do not have access.", the very   *)
(* response given for a session id that does not exist; the response carries *)
(* no data, and the step changes neither the sessions nor the messages.      *)
C1_Step ==
    \A p \in Procs : \A op \in SessionOps :
        LET r == procs'[p] IN
        (Started(p, op) /\ r.caller \in Users /\ WellFormed(r)
            /\ (SessionIdOf(r) \notin DOMAIN sessions
                \/ sessions[SessionIdOf(r)].userId # r.caller))
        => /\ r.pc = "done"
           /\ r.resp = ForbiddenSessionResponse
           /\ ~Has(r.resp, "data")
           /\ sessions' = sessions
           /\ messages' = messages

C1_NonOwnerForbidden == [][C1_Step]_vars

C1_Witness ==
    \E p \in Procs :
        /\ Responded(p, "listChatMessages")
        /\ procs[p].caller \in Users
        /\ procs[p].input.sessionId \in DOMAIN sessions
        /\ sessions[procs[p].input.sessionId].userId # procs[p].caller
        /\ \E m \in Rows(messages) : m.sessionId = procs[p].input.sessionId
        /\ procs[p].resp.code = "FORBIDDEN"

(* C2: whenever no createChatMessage on a session stands between its insert *)
(* and its session update, the session's lastMessageAt is null if it has no  *)
(* message and the greatest createdAt of its messages otherwise.             *)
C2_RecencyMatchesLog ==
    \A s \in DOMAIN sessions :
        LET times == {m.createdAt : m \in {x \in Rows(messages) : x.sessionId = s}}
            partWay == \E p \in Procs : /\ procs[p].op = "createChatMessage"
                                        /\ procs[p].pc = "update"
                                        /\ procs[p].input.sessionId = s
        IN  ~partWay =>
                sessions[s].lastMessageAt = (IF times = {} THEN NullTime ELSE Max(times))

(* C3: createChatSession by a signed-in caller U is answered NOT_FOUND, and  *)
(* inserts nothing, when the character id it reads is absent; FORBIDDEN, and *)
(* inserts nothing, when the character it reads is not public, not system    *)
(* and not U's; otherwise it goes on to insert, and its insert adds exactly  *)
(* one session: U's, on that character, not pinned, not archived, with no    *)
(* context summary and no lastMessageAt.                                     *)
C3_Step ==
    \A p \in Procs :
        LET r == procs'[p]
            cid == r.input.characterId
        IN  /\ (Started(p, "createChatSession") /\ r.caller \in Users) =>
                  IF cid \notin DOMAIN characters
                  THEN r.pc = "done" /\ r.resp.code = "NOT_FOUND" /\ sessions' = sessions
                  ELSE IF /\ ~characters[cid].isPublic
                          /\ ~characters[cid].isSystem
                          /\ characters[cid].userId # r.caller
                  THEN r.pc = "done" /\ r.resp.code = "FORBIDDEN" /\ sessions' = sessions
                  ELSE r.pc = "insert" /\ sessions' = sessions
            /\ (procs[p].op = "createChatSession" /\ procs[p].pc = "insert" /\ Answered(p)) =>
                  /\ r.resp.code = "OK"
                  /\ \E id \in DOMAIN sessions' \ DOMAIN sessions :
                       /\ DOMAIN sessions' = DOMAIN sessions \cup {id}
                       /\ \A i \in DOMAIN sessions : sessions'[i] = sessions[i]
                       /\ sessions'[id].userId = procs[p].caller
                       /\ sessions'[id].characterId = procs[p].input.characterId
                       /\ sessions'[id].isPinned = FALSE
                       /\ sessions'[id].isArchived = FALSE
                       /\ sessions'[id].contextSummary = Null
                       /\ sessions'[id].lastMessageAt = NullTime

C3_CreateChatSessionOutcomes == [][C3_Step]_vars

C3_Witness ==
    \E p \in Procs :
        /\ Responded(p, "createChatSession")
        /\ procs[p].resp.code = "OK"
        /\ LET c == characters[procs[p].input.characterId] IN
             c.isPublic /\ ~c.isSystem /\ c.userId # procs[p].caller
        /\ procs[p].resp.data.session.id \in DOMAIN sessions

(* C4: listCharacters answers with exactly the characters that are public, *)
(* or system, or - when includePrivate is true and the caller is signed in *)
(* - the caller's own.                                                     *)
C4_ListCharactersExact ==
    \A p \in Procs :
        Responded(p, "listCharacters") =>
            LET r == procs[p]
                own == Has(r.input, "includePrivate") /\ r.input.includePrivate
                       /\ r.caller \in Users
            IN  /\ r.resp.code = "OK"
                /\ r.resp.data.items =
                     {c \in Rows(characters) :
                         c.isPublic \/ c.isSystem \/ (own /\ c.userId = r.caller)}

C4_Witness ==
    \E p \in Procs :
        /\ Responded(p, "listCharacters")
        /\ procs[p].caller \in Users
        /\ Has(procs[p].input, "includePrivate") /\ procs[p].input.includePrivate
        /\ \E c \in procs[p].resp.data.items :
             ~c.isPublic /\ ~c.isSystem /\ c.userId = procs[p].caller
        /\ \E c \in procs[p].resp.data.items : c.isSystem /\ ~c.isPublic

(* C5: a well-formed updateCharacter by a signed-in caller on a character  *)
(* that is not the caller's - another user's, or the ownerless system      *)
(* character - is answered with the very response given for an id that     *)
(* does not exist, and in both cases the characters table does not change. *)
C5_Step ==
    \A p \in Procs :
        LET r == procs'[p] IN
        (Started(p, "updateCharacter") /\ r.caller \in Users
            /\ (Has(r.input, "name") => r.input.name # "")
            /\ (r.input.id \notin DOMAIN characters
                \/ characters[r.input.id].userId # r.caller))
        => /\ r.pc = "done"
           /\ r.resp = ForbiddenCharacterResponse
           /\ characters' = characters

C5_NonOwnerIndistinguishable == [][C5_Step]_vars

C5_Witness ==
    \E p \in Procs :
        /\ Responded(p, "updateCharacter")
        /\ procs[p].caller \in Users
        /\ procs[p].input.id \in DOMAIN characters
        /\ characters[procs[p].input.id].userId \in Users \ {procs[p].caller}
        /\ procs[p].resp = ForbiddenCharacterResponse

(* C6: every character inserted by createCharacter is not a system character *)
(* and belongs to the caller whose request inserted it, whatever requests    *)
(* have run since.                                                           *)
C6_CreatedCharactersStayOwned ==
    \A id \in DOMAIN createdBy.characters :
        /\ id \in DOMAIN characters
        /\ characters[id].isSystem = FALSE
        /\ characters[id].userId = createdBy.characters[id]

C6_Witness ==
    \E id \in DOMAIN createdBy.characters :
        /\ characters[id].updatedAt > characters[id].createdAt
        /\ characters[id].isPublic

(* C7: every stored message has a role among user, character and system; a *)
(* user message carries the id of the owner of its session, who is the     *)
(* caller that created the session; any other message carries no user id.  *)
C7_MessageSender ==
    \A m \in Rows(messages) :
        /\ m.senderRole \in {"user", "character", "system"}
        /\ m.sessionId \in DOMAIN sessions
        /\ m.senderRole = "user" =>
              /\ m.userId = sessions[m.sessionId].userId
              /\ m.userId = createdBy.sessions[m.sessionId]
        /\ m.senderRole # "user" => m.userId = Null

C7_Witness ==
    \E m1, m2 \in Rows(messages) :
        /\ m1.sessionId = m2.sessionId
        /\ m1.senderRole = "user" /\ m1.userId \in Users
        /\ m2.senderRole = "character"

(* C8: no step that changes a character changes a session; on a session    *)
(* whose character has become private its owner's createChatMessage,       *)
(* listChatMessages and updateChatSession are accepted and answered OK,    *)
(* and the owner's listMyChatSessions is answered OK and lists the session *)
(* unless it is archived and archived ones were not asked for; and a       *)
(* createChatSession by a user for a private character of another user is  *)
(* answered FORBIDDEN and inserts nothing.                                 *)
C8_Step ==
    /\ characters' # characters => sessions' = sessions
    /\ \A p \in Procs :
         LET r == procs'[p] IN
         /\ \A op \in SessionOps :
              (Started(p, op) /\ WellFormed(r) /\ Grandfathered(SessionIdOf(r))
                  /\ r.caller = sessions[SessionIdOf(r)].userId)
              => r.pc # "done"
         /\ (procs[p].op \in SessionOps /\ procs[p].pc \notin {"idle", "done"} /\ Answered(p))
              => r.resp.code = "OK"
         /\ (procs[p].op = "listChatMessages" /\ procs[p].pc = "select" /\ Answered(p))
              => r.resp.data.items =
                    {m \in Rows(messages) : m.sessionId = procs[p].input.sessionId}
         /\ (Started(p, "listMyChatSessions") /\ r.caller \in Users)
              => /\ r.resp.code = "OK"
                 /\ \A s \in DOMAIN sessions :
                      (/\ Grandfathered(s)
                       /\ sessions[s].userId = r.caller
                       /\ (sessions[s].isArchived =>
                             Has(r.input, "includeArchived") /\ r.input.includeArchived))
                      => sessions[s] \in r.resp.data.items
         /\ (/\ Started(p, "createChatSession") /\ r.caller \in Users
             /\ r.input.characterId \in DOMAIN characters
             /\ ~characters[r.input.characterId].isPublic
             /\ ~characters[r.input.characterId].isSystem
             /\ characters[r.input.characterId].userId # r.caller)
              => r.pc = "done" /\ r.resp.code = "FORBIDDEN" /\ sessions' = sessions

C9_Step ==
    \A p \in Procs :
        (procs[p].op = "createChatSession" /\ procs[p].pc = "insert" /\ Answered(p)) =>
            LET c == characters[procs[p].input.characterId] IN
            c.isPublic \/ c.isSystem \/ c.userId = procs[p].caller

C9_VisibleAtInsert == [][C9_Step]_vars

(* C10: a session that has a lastMessageAt has an updatedAt no earlier, and *)
(* no step takes a session's updatedAt backwards.                           *)
C10_Step ==
    \A s \in DOMAIN sessions' :
        /\ sessions'[s].lastMessageAt # NullTime =>
              sessions'[s].updatedAt >= sessions'[s].lastMessageAt
        /\ s \in DOMAIN sessions => sessions'[s].updatedAt >= sessions[s].updatedAt

C10_UpdatedAtMonotone == [][C10_Step]_vars
====
